---- MODULE Spec2Model ----
(***************************************************************************)
(* North Sussex Judo training fee calculator (src/north_sussex_judo.py).   *)
(*                                                                         *)
(* Numbers.  A Python float is modelled as a pair <<kind, tenths>>:        *)
(* <<"num", t>> is the finite value t/10, NaN is the IEEE not-a-number and *)
(* Inf is +infinity.  Every comparison with NaN is false, as in IEEE 754.  *)
(* Money is kept in pence: every rate of TrainingConfig is a multiple of   *)
(* 0.50 and every count is a small integer, so the float arithmetic of     *)
(* calculate_monthly_fees is exact and integer pence represent it          *)
(* faithfully.                                                             *)
(*                                                                         *)
(* Strings.  A Python str is a sequence of one-character strings, so that  *)
(* strip() and lower() are computed character by character.                *)
(***************************************************************************)
EXTENDS Integers, Sequences, FiniteSets, TLC

VARIABLES athletes, athlete_display, athlete_selector, selected_athlete_var,
          report_display, outcome, args, pc, built, fees, analysis

vars == <<athletes, athlete_display, athlete_selector, selected_athlete_var,
          report_display, outcome, args, pc, built, fees, analysis>>

registryVars == <<athletes, athlete_display, athlete_selector,
                  selected_athlete_var, report_display, outcome>>
callVars == <<args, pc, built, fees, analysis>>

----------------------------------------------------------------------------
(* Floats *)

Num(t) == <<"num", t>>
NaN == <<"nan", 0>>
Inf == <<"inf", 0>>
NegInf == <<"-inf", 0>>

IsNaN(x) == x[1] = "nan"
IsNum(x) == x[1] = "num"

\* x < y on floats
FLt(x, y) ==
    IF IsNaN(x) \/ IsNaN(y) THEN FALSE
    ELSE IF x = NegInf THEN y # NegInf
    ELSE IF x = Inf THEN FALSE
    ELSE IF y = NegInf THEN FALSE
    ELSE IF y = Inf THEN TRUE
    ELSE x[2] < y[2]

\* x <= y on floats
FLe(x, y) ==
    IF IsNaN(x) \/ IsNaN(y) THEN FALSE
    ELSE FLt(x, y) \/ x = y

\* x > y on floats
FGt(x, y) == FLt(y, x)

----------------------------------------------------------------------------
(* Strings *)

UpperChars == <<"A","B","C","D","E","F","G","H","I","J","K","L","M",
                "N","O","P","Q","R","S","T","U","V","W","X","Y","Z">>
LowerChars == <<"a","b","c","d","e","f","g","h","i","j","k","l","m",
                "n","o","p","q","r","s","t","u","v","w","x","y","z">>

Whitespace == {" ", "\t"}

\* the lower-case letter of every upper-case letter
LowerMap ==
    [c \in {UpperChars[i] : i \in 1..Len(UpperChars)} |->
        LowerChars[CHOOSE i \in 1..Len(UpperChars) : UpperChars[i] = c]]

LowerChar(c) == IF c \in DOMAIN LowerMap THEN LowerMap[c] ELSE c

\* str.lower()
Lower(s) == [i \in 1..Len(s) |-> LowerChar(s[i])]

RECURSIVE LStrip(_)
LStrip(s) ==
    IF s # <<>> /\ Head(s) \in Whitespace THEN LStrip(Tail(s)) ELSE s

RECURSIVE RStrip(_)
RStrip(s) ==
    IF s # <<>> /\ s[Len(s)] \in Whitespace
    THEN RStrip(SubSeq(s, 1, Len(s) - 1))
    ELSE s

\* str.strip()
Strip(s) == RStrip(LStrip(s))

----------------------------------------------------------------------------
(* TrainingConfig *)

\* weekly_fee in pence
TRAINING_PLANS ==
    [Beginner     |-> [sessions_per_week |-> 2, weekly_fee |-> 2500],
     Intermediate |-> [sessions_per_week |-> 3, weekly_fee |-> 3000],
     Elite        |-> [sessions_per_week |-> 5, weekly_fee |-> 3500]]

\* the dict in insertion order, which is the order its items() are scanned in
WEIGHT_CATEGORIES ==
    << <<"Flyweight", Num(660)>>,
       <<"Lightweight", Num(730)>>,
       <<"Light-Middleweight", Num(810)>>,
       <<"Middleweight", Num(900)>>,
       <<"Light-Heavyweight", Num(1000)>>,
       <<"Heavyweight", Inf>> >>

PRIVATE_COACHING_RATE == 950
COMPETITION_ENTRY_FEE == 2200
MAX_PRIVATE_COACHING_HOURS == 5
WEEKS_PER_MONTH == 4

----------------------------------------------------------------------------
(* Exceptions: a call either returns a value or raises an error *)

Return(v) == [raised |-> FALSE, value |-> v]
Raise(e) == [raised |-> TRUE, error |-> e]

----------------------------------------------------------------------------
(* class Athlete *)

_validate_name(name) ==
    LET n == Strip(name)
    IN  IF n = <<>> THEN Raise("InvalidName") ELSE Return(n)

_validate_training_plan(plan) ==
    IF plan \notin DOMAIN TRAINING_PLANS
    THEN Raise("UnknownPlan")
    ELSE Return(plan)

_validate_weight(weight) ==
    IF FLe(weight, Num(0)) THEN Raise("InvalidWeight")
    ELSE IF FGt(weight, Num(2000)) THEN Raise("InvalidWeight")
    ELSE Return(weight)

\* variant: the monthly maximum is checked before the plan
_validate_competitions_maxFirst(competitions, training_plan) ==
    IF competitions < 0 THEN Raise("InvalidCompetitions")
    ELSE IF competitions > 4 THEN Raise("TooManyCompetitions")
    ELSE IF training_plan = "Beginner" /\ competitions > 0
         THEN Raise("CompetitionsNotAllowedForPlan")
    ELSE Return(competitions)

\* variant: the plan is not looked at
_validate_competitions_anyPlan(competitions, training_plan) ==
    IF competitions < 0 THEN Raise("InvalidCompetitions")
    ELSE IF competitions > 4 THEN Raise("TooManyCompetitions")
    ELSE Return(competitions)

_validate_competitions(competitions, training_plan) ==
    IF competitions < 0 THEN Raise("InvalidCompetitions")
    ELSE IF training_plan = "Beginner" /\ competitions > 0
         THEN Raise("CompetitionsNotAllowedForPlan")
    ELSE IF competitions > 4 THEN Raise("TooManyCompetitions")
    ELSE Return(competitions)

\* variant: the maximum itself is refused
_validate_coaching_hours_below(hours) ==
    IF hours < 0 THEN Raise("InvalidCoachingHours")
    ELSE IF hours >= MAX_PRIVATE_COACHING_HOURS
         THEN Raise("InvalidCoachingHours")
    ELSE Return(hours)

_validate_coaching_hours(hours) ==
    IF hours < 0 THEN Raise("InvalidCoachingHours")
    ELSE IF hours > MAX_PRIVATE_COACHING_HOURS
         THEN Raise("InvalidCoachingHours")
    ELSE Return(hours)

\* variant: a weight equal to a bound goes to the next category
RECURSIVE ScanCategoriesStrict(_, _)
ScanCategoriesStrict(weight, i) ==
    IF i > Len(WEIGHT_CATEGORIES) THEN "Heavyweight"
    ELSE IF FLt(weight, WEIGHT_CATEGORIES[i][2]) THEN WEIGHT_CATEGORIES[i][1]
    ELSE ScanCategoriesStrict(weight, i + 1)

RECURSIVE ScanCategories(_, _)
ScanCategories(weight, i) ==
    IF i > Len(WEIGHT_CATEGORIES) THEN "Heavyweight"
    ELSE IF FLe(weight, WEIGHT_CATEGORIES[i][2]) THEN WEIGHT_CATEGORIES[i][1]
    ELSE ScanCategories(weight, i + 1)

_determine_weight_category(current_weight) == ScanCategories(current_weight, 1)

\* the results of the validators in their order: the first that raised, or
\* else the record
Validated(n, p, w, c, h) ==
    IF n.raised THEN n
    ELSE IF p.raised THEN p
    ELSE IF w.raised THEN w
    ELSE IF c.raised THEN c
    ELSE IF h.raised THEN h
    ELSE Return([name |-> n.value,
                 training_plan |-> p.value,
                 current_weight |-> w.value,
                 competitions |-> c.value,
                 private_coaching_hours |-> h.value,
                 weight_category |-> _determine_weight_category(w.value)])

\* Athlete.__init__: the validators run in this order and the first one that
\* raises aborts the construction
AthleteInit(name, training_plan, current_weight, competitions, hours) ==
    Validated(_validate_name(name),
              _validate_training_plan(training_plan),
              _validate_weight(current_weight),
              _validate_competitions(competitions, training_plan),
              _validate_coaching_hours(hours))

\* variant: the coaching hours are charged for one week only
calculate_monthly_fees_weekly(self) ==
    LET training_cost ==
            TRAINING_PLANS[self.training_plan].weekly_fee * WEEKS_PER_MONTH
        coaching_cost == self.private_coaching_hours * PRIVATE_COACHING_RATE
        competition_cost == self.competitions * COMPETITION_ENTRY_FEE
        total_cost == training_cost + coaching_cost + competition_cost
    IN  Return([training_cost |-> training_cost,
                coaching_cost |-> coaching_cost,
                competition_cost |-> competition_cost,
                total_cost |-> total_cost])

calculate_monthly_fees(self) ==
    IF self.training_plan \notin DOMAIN TRAINING_PLANS
    THEN Raise("KeyError")
    ELSE
    LET training_cost ==
            TRAINING_PLANS[self.training_plan].weekly_fee * WEEKS_PER_MONTH
        coaching_cost ==
            self.private_coaching_hours * WEEKS_PER_MONTH
                * PRIVATE_COACHING_RATE
        competition_cost == self.competitions * COMPETITION_ENTRY_FEE
        total_cost == training_cost + coaching_cost + competition_cost
    IN  Return([training_cost |-> training_cost,
                coaching_cost |-> coaching_cost,
                competition_cost |-> competition_cost,
                total_cost |-> total_cost])

----------------------------------------------------------------------------
(* Direct calls of the Athlete class: the arguments are drawn in the        *)
(* initial state, Construct runs Athlete(...) on them and the methods of    *)
(* the constructed record are then applied to it.                           *)

MaxCompetitionsArg == 6
MaxHoursArg == 7
MaxWeightArg == 2010

NameArgs ==
    { <<>>, <<" ">>, <<" ", "\t">>, <<"J">>, <<" ", "J", " ">>,
      <<"a", " ", "B">>, <<"\t", "a", " ", "B", " ", " ">> }

PlanArgs == {"Beginner", "Intermediate", "Elite", "InvalidPlan"}

\* weights around every bound of the validators and of the categories
BoundaryWeightArgs ==
    { Num(t) : t \in {-50, 0, 1, 299, 300, 660, 661, 750, 1000, 1001,
                      2000, 2001, 2500} } \cup {NaN, Inf}

CompetitionsArgs == -1..MaxCompetitionsArg
HoursArgs == -1..MaxHoursArg

CallArgs(n, p, w, c, h) ==
    [name |-> n, training_plan |-> p, current_weight |-> w,
     competitions |-> c, private_coaching_hours |-> h]

\* every combination of the boundary values, and every weight in steps of
\* 0.1 kg for one fixed valid choice of the other arguments
ArgsCross ==
    { CallArgs(n, p, w, c, h) :
        n \in NameArgs, p \in PlanArgs, w \in BoundaryWeightArgs,
        c \in CompetitionsArgs, h \in HoursArgs }

ArgsWeights ==
    { CallArgs(<<"J">>, p, Num(t), 0, 0) :
        p \in {"Beginner", "Elite"}, t \in -1..MaxWeightArg }

NotCalled == [done |-> FALSE]

Construct ==
    /\ pc = "call"
    /\ built' = AthleteInit(args.name, args.training_plan,
                            args.current_weight, args.competitions,
                            args.private_coaching_hours)
    /\ pc' = IF built'.raised THEN "raised" ELSE "constructed"
    /\ UNCHANGED <<args, fees, analysis>>
    /\ UNCHANGED registryVars

CalculateMonthlyFees ==
    /\ pc = "constructed"
    /\ ~fees.done
    /\ fees' = [done |-> TRUE, result |-> calculate_monthly_fees(built.value)]
    /\ UNCHANGED <<args, pc, built, analysis>>
    /\ UNCHANGED registryVars

----------------------------------------------------------------------------
(* Text of numbers *)

DigitChars == <<"0","1","2","3","4","5","6","7","8","9">>

DigitMap ==
    [c \in {DigitChars[i] : i \in 1..Len(DigitChars)} |->
        (CHOOSE i \in 1..Len(DigitChars) : DigitChars[i] = c) - 1]

IsDigit(c) == c \in DOMAIN DigitMap
DigitVal(c) == DigitMap[c]

AllDigits(s) == \A i \in 1..Len(s) : IsDigit(s[i])

RECURSIVE DigitsVal(_)
DigitsVal(s) ==
    IF s = <<>> THEN 0
    ELSE 10 * DigitsVal(SubSeq(s, 1, Len(s) - 1)) + DigitVal(s[Len(s)])

RECURSIVE NatToChars(_)
NatToChars(n) ==
    IF n < 10 THEN <<DigitChars[n + 1]>>
    ELSE NatToChars(n \div 10) \o <<DigitChars[(n % 10) + 1]>>

\* the position of the first "." of s, or 0
DotAt(s) ==
    IF \E i \in 1..Len(s) : s[i] = "."
    THEN CHOOSE i \in 1..Len(s) :
            s[i] = "." /\ \A j \in 1..(i - 1) : s[j] # "."
    ELSE 0

\* the value in tenths of the digits ip before and fp after the point
UnsignedOf(ip, fp) ==
    IF /\ AllDigits(ip) /\ AllDigits(fp)
       /\ Len(ip) + Len(fp) > 0 /\ Len(fp) <= 1
    THEN Return(10 * DigitsVal(ip) + DigitsVal(fp))
    ELSE Raise("could not convert")

\* s split at its first point, which is at position d
SplitAt(s, d) ==
    IF d = 0 THEN UnsignedOf(s, <<>>)
    ELSE UnsignedOf(SubSeq(s, 1, d - 1), SubSeq(s, d + 1, Len(s)))

\* an unsigned decimal literal with at most one fractional digit, in tenths:
\* "70", "70.", "70.5", ".5"
UnsignedTenths(s) == SplitAt(s, DotAt(s))

Signed(neg, u) ==
    IF u.raised THEN u
    ELSE Return(Num(IF neg THEN 0 - u.value ELSE u.value))

\* body is the text after the sign and word is body in lower case
ParseWord(neg, body, word) ==
    IF word = <<"n", "a", "n">> THEN Return(NaN)
    ELSE IF word \in { <<"i", "n", "f">>,
                       <<"i", "n", "f", "i", "n", "i", "t", "y">> }
         THEN Return(IF neg THEN NegInf ELSE Inf)
    ELSE Signed(neg, UnsignedTenths(body))

ParseBody(neg, body) == ParseWord(neg, body, Lower(body))

ParseStripped(s) ==
    IF s # <<>> /\ s[1] \in {"+", "-"}
    THEN ParseBody(s[1] = "-", Tail(s))
    ELSE ParseBody(FALSE, s)

\* float(text) for the texts of the form entries: surrounding whitespace is
\* ignored, an optional sign, then nan, inf, infinity (in any letter case) or
\* a decimal literal.  Exponents, digit separators and literals with more
\* than one fractional digit are outside the entries modelled.
ParseFloat(text) == ParseStripped(Strip(text))

\* variant: the float is rounded to the nearest whole number
IntOfFloat_nearest(x) ==
    IF IsNaN(x) THEN Raise("ValueError: cannot convert float NaN to integer")
    ELSE IF ~IsNum(x)
         THEN Raise("OverflowError: cannot convert float infinity to integer")
    ELSE IF x[2] >= 0 THEN Return((x[2] + 5) \div 10)
    ELSE Return(0 - ((5 - x[2]) \div 10))

\* int(x) of a float: truncation toward zero
IntOfFloat(x) ==
    IF IsNaN(x) THEN Raise("ValueError: cannot convert float NaN to integer")
    ELSE IF ~IsNum(x)
         THEN Raise("OverflowError: cannot convert float infinity to integer")
    ELSE IF x[2] >= 0 THEN Return(x[2] \div 10)
    ELSE Return(0 - ((0 - x[2]) \div 10))

\* f"{x:.1f}"
FormatOneDecimal(x) ==
    IF IsNaN(x) THEN <<"n", "a", "n">>
    ELSE IF x = Inf THEN <<"i", "n", "f">>
    ELSE IF x = NegInf THEN <<"-", "i", "n", "f">>
    ELSE LET m == IF x[2] < 0 THEN 0 - x[2] ELSE x[2]
         IN  (IF x[2] < 0 THEN <<"-">> ELSE <<>>)
                \o NatToChars(m \div 10) \o <<".", DigitChars[(m % 10) + 1]>>

\* the currency symbol, U+00A3, as one character
PoundSign == "GBP"

\* format_currency of an amount in pence
format_currency(amount) ==
    <<PoundSign>> \o NatToChars(amount \div 100)
        \o <<".", DigitChars[((amount \div 10) % 10) + 1],
             DigitChars[(amount % 10) + 1]>>

\* the range check of validate_number_input on the converted value
CheckRange(num_val, min_val, max_val) ==
    IF num_val.raised THEN Raise("NotANumber")
    ELSE IF FLt(num_val.value, min_val) THEN Raise("BelowMinimum")
    ELSE IF FGt(num_val.value, max_val) THEN Raise("AboveMaximum")
    ELSE Return(num_val.value)

validate_number_input(value, min_val, max_val) ==
    CheckRange(ParseFloat(value), min_val, max_val)

----------------------------------------------------------------------------
(* Athlete.get_weight_analysis *)

\* x - y on floats
FSub(x, y) ==
    IF IsNaN(x) \/ IsNaN(y) THEN NaN
    ELSE IF IsNum(x) /\ IsNum(y) THEN Num(x[2] - y[2])
    ELSE IF IsNum(x) THEN (IF y = Inf THEN NegInf ELSE Inf)
    ELSE IF IsNum(y) THEN x
    ELSE IF x = y THEN NaN
    ELSE x

\* TrainingConfig.WEIGHT_CATEGORIES[weight_category]
CategoryLimit(weight_category) ==
    WEIGHT_CATEGORIES[CHOOSE i \in 1..Len(WEIGHT_CATEGORIES) :
                          WEIGHT_CATEGORIES[i][1] = weight_category][2]

\* the text of get_weight_analysis in its parts: the weight as formatted,
\* the wording chosen, and the category and its limit where they are named
Analysis(weight, wording, category, limit) ==
    [weight |-> weight, wording |-> wording, category |-> category,
     limit |-> limit]

\* variant: a difference of exactly 5 counts as well within the limit
WordingFor_atLeast(weight_difference) ==
    IF FGt(weight_difference, Num(50)) \/ weight_difference = Num(50)
    THEN "Well within"
    ELSE IF FGt(weight_difference, Num(0)) THEN "Close to"
    ELSE "Over"

\* the branch taken for a weight_difference
WordingFor(weight_difference) ==
    IF FGt(weight_difference, Num(50)) THEN "Well within"
    ELSE IF FGt(weight_difference, Num(0)) THEN "Close to"
    ELSE "Over"

get_weight_analysis(self) ==
    IF self.weight_category = "Heavyweight"
    THEN Analysis(FormatOneDecimal(self.current_weight),
                  "Heavyweight category (no upper limit)", "Heavyweight", <<>>)
    ELSE Analysis(FormatOneDecimal(self.current_weight),
                  WordingFor(FSub(CategoryLimit(self.weight_category),
                                  self.current_weight)),
                  self.weight_category,
                  NatToChars(CategoryLimit(self.weight_category)[2] \div 10))

GetWeightAnalysis ==
    /\ pc = "constructed"
    /\ ~analysis.done
    /\ analysis' = [done |-> TRUE, result |-> get_weight_analysis(built.value)]
    /\ UNCHANGED <<args, pc, built, fees>>
    /\ UNCHANGED registryVars

----------------------------------------------------------------------------
(* class JudoManagementSystem *)

sample_data ==
    <<
       <<<<"J","a","m","e","s"," ","M","i","t","c","h","e","l","l">>,
         "Elite", Num(785), 3, 4>>,
       <<<<"S","a","r","a","h"," ","C","h","e","n">>,
         "Intermediate", Num(672), 2, 2>>,
       <<<<"R","o","b","e","r","t"," ","T","a","y","l","o","r">>,
         "Beginner", Num(851), 0, 1>>,
       <<<<"E","m","m","a"," ","R","o","d","r","i","g","u","e","z">>,
         "Elite", Num(728), 4, 5>>,
       <<<<"M","i","c","h","a","e","l"," ","J","o","h","n","s","o","n">>,
         "Intermediate", Num(815), 1, 0>>,
       <<<<"L","i","s","a"," ","A","n","d","e","r","s","o","n">>,
         "Beginner", Num(693), 0, 0>>
    >>

\* the rows of the Treeview, one per athlete, in the order of self.athletes
DisplayRow(athlete) ==
    [name |-> athlete.name,
     plan |-> athlete.training_plan,
     weight |-> FormatOneDecimal(athlete.current_weight),
     category |-> athlete.weight_category,
     competitions |-> athlete.competitions,
     coaching |-> athlete.private_coaching_hours,
     fee |-> format_currency(
                 calculate_monthly_fees(athlete).value.total_cost)]

refresh_athlete_display(athletes_) ==
    [i \in 1..Len(athletes_) |-> DisplayRow(athletes_[i])]

\* the values offered by the selector
athlete_names(athletes_) == [i \in 1..Len(athletes_) |-> athletes_[i].name]

\* variant: the selector is set to the last name instead of the first
update_athlete_selector_last(athletes_) ==
    IF athletes_ # <<>> THEN athletes_[Len(athletes_)].name ELSE <<>>

\* the value the selector is set to
update_athlete_selector(athletes_) ==
    IF athletes_ # <<>> THEN athletes_[1].name ELSE <<>>

\* the try block of the loop: a sample that fails validation is skipped
AppendUnlessRaised(acc, a) == IF a.raised THEN acc ELSE Append(acc, a.value)

SampleAthlete(d) == AthleteInit(d[1], d[2], d[3], d[4], d[5])

RECURSIVE LoadSamples(_, _)
LoadSamples(i, acc) ==
    IF i > Len(sample_data) THEN acc
    ELSE LoadSamples(i + 1,
                     AppendUnlessRaised(acc, SampleAthlete(sample_data[i])))

load_initial_data == LoadSamples(1, <<>>)

\* variant: the names are compared as they are
IsDuplicateNameExact(athletes_, name) ==
    \E i \in 1..Len(athletes_) : athletes_[i].name = name

\* any(athlete.name.lower() == name.lower() for athlete in self.athletes)
IsDuplicateName(athletes_, name) ==
    \E i \in 1..Len(athletes_) : Lower(athletes_[i].name) = Lower(name)

\* int(validate_number_input(...))
ToInt(num) == IF num.raised THEN num ELSE IntOfFloat(num.value)

\* the checks of register_athlete's try block in their order, on the
\* stripped name and the validated entries
Submit(athletes_, name, plan, weight, competitions, coaching_hours) ==
    IF name = <<>> THEN Raise("NameRequired")
    ELSE IF IsDuplicateName(athletes_, name) THEN Raise("DuplicateName")
    ELSE IF weight.raised THEN weight
    ELSE IF competitions.raised THEN competitions
    ELSE IF coaching_hours.raised THEN coaching_hours
    ELSE AthleteInit(name, plan, weight.value, competitions.value,
                     coaching_hours.value)

\* The body of register_athlete's try block on the contents of the form:
\* the athlete to append, or the error shown in the dialog.
RegistrationResult(athletes_, form) ==
    Submit(athletes_, Strip(form.name), form.plan,
           validate_number_input(form.weight, Num(300), Num(2000)),
           ToInt(validate_number_input(form.competitions, Num(0), Num(40))),
           ToInt(validate_number_input(form.coaching, Num(0),
                                       Num(10 * MAX_PRIVATE_COACHING_HOURS))))

\* variant: the new athlete is put in front of the others
RegisteredFirst(athletes_, r) ==
    IF r.raised
    THEN [athletes |-> athletes_, dialog |-> r.error]
    ELSE [athletes |-> <<r.value>> \o athletes_, dialog |-> "ok"]

\* self.athletes afterwards and the dialog shown, for the result r of the
\* try block
Registered(athletes_, r) ==
    IF r.raised
    THEN [athletes |-> athletes_, dialog |-> r.error]
    ELSE [athletes |-> Append(athletes_, r.value), dialog |-> "ok"]

\* as Registered, but a Beginner's competitions are dropped: the athlete of z
\* is added although the error of r is reported
RegisteredCorrected(athletes_, r, z) ==
    IF r.raised /\ r.error = "CompetitionsNotAllowedForPlan" /\ ~z.raised
    THEN [athletes |-> Append(athletes_, z.value), dialog |-> r.error]
    ELSE Registered(athletes_, r)

\* variant: a Beginner's competitions are dropped and the athlete is added
\* although the error is reported
register_athlete_corrected(athletes_, form) ==
    RegisteredCorrected(athletes_, RegistrationResult(athletes_, form),
        RegistrationResult(athletes_, [form EXCEPT !.competitions = <<"0">>]))

\* register_athlete: self.athletes afterwards and the dialog shown
register_athlete(athletes_, form) ==
    Registered(athletes_, RegistrationResult(athletes_, form))

\* variant: the filter keeps the named athlete instead of dropping it
remove_athlete_inverted(athletes_, athlete_name) ==
    SelectSeq(athletes_, LAMBDA a : a.name = athlete_name)

\* self.athletes after a confirmed removal of athlete_name
remove_athlete(athletes_, athlete_name) ==
    SelectSeq(athletes_, LAMBDA a : a.name # athlete_name)

\* what the last button press was about and the dialog it ended with: the
\* operation, its result and the name it was given
Outcome(op, result, name) == [op |-> op, result |-> result, name |-> name]

\* the state after register_athlete has ended as in done
AfterRegister(name, done) ==
    /\ athletes' = done.athletes
    /\ outcome' = Outcome("register", done.dialog, name)
    /\ UNCHANGED report_display
    /\ IF done.dialog = "ok"
       THEN /\ athlete_display' = refresh_athlete_display(athletes')
            /\ athlete_selector' = athlete_names(athletes')
            /\ selected_athlete_var' = update_athlete_selector(athletes')
       ELSE UNCHANGED <<athlete_display, athlete_selector,
                        selected_athlete_var>>
    /\ UNCHANGED callVars

\* The Register Athlete button, pressed on a filled-in form
RegisterAthlete(form) ==
    AfterRegister(Strip(form.name), register_athlete(athletes, form))

\* The Remove Selected button: selection is the set of selected rows and
\* confirm the answer to the confirmation dialog
RemoveAthlete(selection, confirm) ==
    /\ IF selection = {}
       THEN /\ outcome' = Outcome("remove", "NoSelection", <<>>)
            /\ UNCHANGED <<athletes, athlete_display, athlete_selector,
                           selected_athlete_var>>
       ELSE LET item == CHOOSE i \in selection : \A j \in selection : i <= j
                athlete_name == athlete_display[item].name
            IN  IF confirm
                THEN /\ athletes' = remove_athlete(athletes, athlete_name)
                     /\ athlete_display' = refresh_athlete_display(athletes')
                     /\ athlete_selector' = athlete_names(athletes')
                     /\ selected_athlete_var' =
                            update_athlete_selector(athletes')
                     /\ outcome' = Outcome("remove", "removed", athlete_name)
                ELSE /\ outcome' = Outcome("remove", "cancelled", <<>>)
                     /\ UNCHANGED <<athletes, athlete_display,
                                    athlete_selector, selected_athlete_var>>
    /\ UNCHANGED report_display
    /\ UNCHANGED callVars

----------------------------------------------------------------------------
(* Reports *)

\* the upper-case letter of every lower-case letter
UpperMap ==
    [c \in {LowerChars[i] : i \in 1..Len(LowerChars)} |->
        UpperChars[CHOOSE i \in 1..Len(LowerChars) : LowerChars[i] = c]]

UpperChar(c) == IF c \in DOMAIN UpperMap THEN UpperMap[c] ELSE c

\* str.upper()
Upper(s) == [i \in 1..Len(s) |-> UpperChar(s[i])]

\* a line that is written only when count > 0
OptionalLine(count, amount) ==
    IF count > 0 THEN <<[count |-> count, amount |-> format_currency(amount)]>>
    ELSE <<>>

\* the text of generate_fee_report in its parts, for the fees of the athlete
FeeReport(athlete, fees_) ==
    [heading |-> Upper(athlete.name),
     training_plan |-> athlete.training_plan,
     sessions_per_week |->
         TRAINING_PLANS[athlete.training_plan].sessions_per_week,
     training_fees |-> format_currency(fees_.training_cost),
     private_coaching |->
         OptionalLine(athlete.private_coaching_hours, fees_.coaching_cost),
     competition_entries |->
         OptionalLine(athlete.competitions, fees_.competition_cost),
     total_monthly_fee |-> format_currency(fees_.total_cost),
     athlete_details |-> get_weight_analysis(athlete)]

generate_fee_report(athlete) ==
    FeeReport(athlete, calculate_monthly_fees(athlete).value)

\* variant: the text already in the widget is kept below the new report
show_report_keepOld(display, report) == <<report>> \o display

\* report_display.delete(1.0, tk.END) and then insert(1.0, report): the
\* texts the widget holds
show_report(display, report) == <<report>>

\* next((a for a in self.athletes if a.name == selected_name), None)
FindAthlete(athletes_, selected_name) ==
    SelectSeq(athletes_, LAMBDA a : a.name = selected_name)

\* the report for the athletes found under the selected name
ReportOfFound(found) ==
    IF found = <<>> THEN Raise("NotFound")
    ELSE Return(generate_fee_report(found[1]))

\* generate_individual_report: the report written to the widget, or the
\* dialog shown instead
generate_individual_report(athletes_, selected_name) ==
    IF athletes_ = <<>> THEN Raise("NoAthletes")
    ELSE IF selected_name = <<>> THEN Raise("NoSelection")
    ELSE ReportOfFound(FindAthlete(athletes_, selected_name))

\* total_monthly_revenue after the loop, from the athlete at index i on
RECURSIVE TotalRevenue(_, _, _)
TotalRevenue(athletes_, i, total_monthly_revenue) ==
    IF i > Len(athletes_) THEN total_monthly_revenue
    ELSE TotalRevenue(athletes_, i + 1,
             total_monthly_revenue
                 + calculate_monthly_fees(athletes_[i]).value.total_cost)

\* the whole number nearest to p / q, the even one of two equally near
RoundHalfEven(p, q) ==
    IF 2 * (p % q) < q THEN p \div q
    ELSE IF 2 * (p % q) > q THEN (p \div q) + 1
    ELSE IF (p \div q) % 2 = 0 THEN p \div q
    ELSE (p \div q) + 1

\* total / count as format_currency rounds it, in pence.  The quotient of
\* the floats is within one unit of the last place of the exact quotient,
\* which is either an exact binary fraction or far from a half penny as long
\* as count < 80, so that rounding the exact quotient gives the digits shown.
Divide(total, count) ==
    IF count = 0 THEN Raise("ZeroDivisionError")
    ELSE Return(RoundHalfEven(total, count))

\* variant: the count of a plan is set to 1 instead of being increased
Increment_overwrite(plan_counts, plan) ==
    IF \E k \in 1..Len(plan_counts) : plan_counts[k][1] = plan
    THEN plan_counts
    ELSE Append(plan_counts, <<plan, 1>>)

\* plan_counts[plan] = plan_counts.get(plan, 0) + 1 on a dict kept as the
\* sequence of its items in insertion order
Increment(plan_counts, plan) ==
    IF \E k \in 1..Len(plan_counts) : plan_counts[k][1] = plan
    THEN [k \in 1..Len(plan_counts) |->
             IF plan_counts[k][1] = plan
             THEN <<plan, plan_counts[k][2] + 1>>
             ELSE plan_counts[k]]
    ELSE Append(plan_counts, <<plan, 1>>)

RECURSIVE CountPlans(_, _, _)
CountPlans(athletes_, i, plan_counts) ==
    IF i > Len(athletes_) THEN plan_counts
    ELSE CountPlans(athletes_, i + 1,
                    Increment(plan_counts, athletes_[i].training_plan))

\* the text of the summary report in its parts
Summary(athletes_, total_monthly_revenue, average, now) ==
    IF average.raised THEN average
    ELSE Return(
        [all_reports |->
             [i \in 1..Len(athletes_) |-> generate_fee_report(athletes_[i])],
         total_registered_athletes |-> Len(athletes_),
         total_monthly_revenue |-> format_currency(total_monthly_revenue),
         average_fee_per_athlete |-> format_currency(average.value),
         report_generated |-> now,
         training_plan_distribution |-> CountPlans(athletes_, 1, <<>>)])

SummaryOfTotal(athletes_, total_monthly_revenue, now) ==
    Summary(athletes_, total_monthly_revenue,
            Divide(total_monthly_revenue, Len(athletes_)), now)

\* variant: the summary is built although there are no athletes
generate_summary_report_unguarded(athletes_, now) ==
    SummaryOfTotal(athletes_, TotalRevenue(athletes_, 1, 0), now)

\* generate_summary_report at the time now: the report written to the
\* widget, or the dialog shown or the exception raised instead
generate_summary_report(athletes_, now) ==
    IF athletes_ = <<>> THEN Raise("NoAthletes")
    ELSE SummaryOfTotal(athletes_, TotalRevenue(athletes_, 1, 0), now)

\* the state after a report button has ended with result
AfterReport(op, name, result) ==
    /\ IF result.raised
       THEN /\ outcome' = Outcome(op, result.error, name)
            /\ UNCHANGED report_display
       ELSE /\ outcome' = Outcome(op, "ok", name)
            /\ report_display' = show_report(report_display, result.value)
    /\ UNCHANGED <<athletes, athlete_display, athlete_selector,
                   selected_athlete_var>>
    /\ UNCHANGED callVars

\* The Individual Report button
GenerateIndividualReport ==
    AfterReport("individual", selected_athlete_var,
                generate_individual_report(athletes, selected_athlete_var))

\* The Full Summary button, pressed at the time now
GenerateSummaryReport(now) ==
    AfterReport("summary", <<>>, generate_summary_report(athletes, now))

\* The Refresh List button
RefreshList ==
    /\ athlete_display' = refresh_athlete_display(athletes)
    /\ outcome' = Outcome("refresh", "ok", <<>>)
    /\ UNCHANGED <<athletes, athlete_selector, selected_athlete_var,
                   report_display>>
    /\ UNCHANGED callVars

\* A choice in the read-only selector, among the values it offers
SelectAthlete(name) ==
    /\ \E i \in 1..Len(athlete_selector) : athlete_selector[i] = name
    /\ selected_athlete_var' = name
    /\ outcome' = Outcome("select", "ok", name)
    /\ UNCHANGED <<athletes, athlete_display, athlete_selector,
                   report_display>>
    /\ UNCHANGED callVars

----------------------------------------------------------------------------
(* The forms a user submits *)

Form(n, e) ==
    [name |-> n, plan |-> e[1], weight |-> e[2], competitions |-> e[3],
     coaching |-> e[4]]

\* (plan, weight, competitions, coaching) as selected and typed
BeginnerEntry == <<"Beginner", <<"3","0">>, <<"0">>, <<"0">> >>
EliteEntry == <<"Elite", <<"2","0","0">>, <<"4">>, <<" ","5",".","0">> >>

\* one entry for every way a check of register_athlete can turn out
OtherEntries ==
    { <<"Elite", <<"n","a","n">>, <<"2">>, <<"0">> >>,
      <<"Beginner", <<"7","0">>, <<"0",".","5">>, <<"0">> >>,
      <<"Beginner", <<"a","b","c">>, <<"0">>, <<"0">> >>,
      <<"Elite", <<"2","9",".","9">>, <<"0">>, <<"0">> >>,
      <<"Elite", <<"2","0","0",".","1">>, <<"0">>, <<"0">> >>,
      <<"Elite", <<"7","0">>, <<"3",".","5">>, <<"0">> >>,
      <<"Elite", <<"7","0">>, <<"4",".","5">>, <<"0">> >>,
      <<"Elite", <<"7","0">>, <<"-","1">>, <<"0">> >>,
      <<"Elite", <<"7","0">>, <<"x">>, <<"0">> >>,
      <<"Elite", <<"i","n","f">>, <<"0">>, <<"0">> >>,
      <<"Beginner", <<>>, <<"0">>, <<"0">> >>,
      <<"Beginner", <<"7","0">>, <<"5">>, <<"6">> >>,
      <<"Elite", <<"7","0">>, <<"n","a","n">>, <<"0">> >>,
      <<"Beginner", <<"7","0">>, <<"1">>, <<"0">> >>,
      <<"Intermediate", <<"7","0">>, <<"0">>, <<"5",".","5">> >>,
      <<"Intermediate", <<"7","0">>, <<"0">>, <<"-","0",".","5">> >>,
      <<"Intermediate", <<"7","0">>, <<"1",".","5">>, <<"4",".","5">> >> }

\* the forms submitted: valid entries under a blank name, under new names
\* that differ by case and by surrounding whitespace, and under a case
\* variant of a sample name; the other entries under one name
RegistrationForms ==
    { Form(n, BeginnerEntry) :
        n \in { <<>>, <<" ", " ">>, <<"a", "b">>, <<" ", "a", "b", "\t">> } }
    \cup
    { Form(n, EliteEntry) :
        n \in { <<"A", "B">>,
                <<"l","i","s","a"," ","a","n","d","e","r","s","o","n">> } }
    \cup
    { Form(<<"A", "B">>, e) : e \in OtherEntries }

\* no row, one row, or all rows selected
Selections(rows) == {{}} \cup {{i} : i \in 1..rows} \cup {1..rows}

----------------------------------------------------------------------------
(* The application: JudoManagementSystem.__init__ and then any sequence of  *)
(* button presses                                                            *)

Init ==
    /\ athletes = load_initial_data
    /\ athlete_display = refresh_athlete_display(athletes)
    /\ athlete_selector = athlete_names(athletes)
    /\ selected_athlete_var = update_athlete_selector(athletes)
    /\ report_display = <<>>
    /\ outcome = Outcome("init", "ok", <<>>)
    /\ args = CallArgs(<<"J">>, "Intermediate", Num(750), 2, 3)
    /\ pc = "idle"
    /\ built = NotCalled
    /\ fees = NotCalled
    /\ analysis = NotCalled

Next ==
    \/ \E form \in RegistrationForms : RegisterAthlete(form)
    \/ \E selection \in Selections(Len(athlete_display)),
          confirm \in BOOLEAN : RemoveAthlete(selection, confirm)

Spec == Init /\ [][Next]_vars

(* The application with its report buttons.  Rows are removed from the    *)
(* top of the listing, so that the registry shrinks to the empty one, and  *)
(* a few forms are submitted.                                              *)

\* datetime.now() as formatted, at the times the summary is asked for
Times == {"November 04, 2026 at 09:00 AM", "November 04, 2026 at 09:01 AM"}

ReportForms ==
    { Form(<<"a", "b">>, BeginnerEntry),
      Form(<<"A", "B">>, EliteEntry),
      Form(<<"A", "B">>, <<"Elite", <<"n","a","n">>, <<"2">>, <<"0">> >>),
      Form(<<"A", "B">>, <<"Intermediate", <<"6","6">>, <<"9">>, <<"0">> >>) }

TopSelections == {{}, {1}}

NextReports ==
    \/ \E form \in ReportForms : RegisterAthlete(form)
    \/ \E selection \in TopSelections, confirm \in BOOLEAN :
          /\ selection \subseteq 1..Len(athlete_display)
          /\ RemoveAthlete(selection, confirm)
    \/ RefreshList
    \/ \E i \in 1..Len(athlete_selector) : SelectAthlete(athlete_selector[i])
    \/ GenerateIndividualReport
    \/ \E now \in Times : GenerateSummaryReport(now)

SpecReports == Init /\ [][NextReports]_vars

(* Direct calls of Athlete on drawn arguments *)

InitAthlete ==
    /\ athletes = load_initial_data
    /\ athlete_display = refresh_athlete_display(athletes)
    /\ athlete_selector = athlete_names(athletes)
    /\ selected_athlete_var = update_athlete_selector(athletes)
    /\ report_display = <<>>
    /\ outcome = Outcome("init", "ok", <<>>)
    /\ args \in ArgsCross \cup ArgsWeights
    /\ pc = "call"
    /\ built = NotCalled
    /\ fees = NotCalled
    /\ analysis = NotCalled

NextAthlete ==
    \/ Construct
    \/ CalculateMonthlyFees
    \/ GetWeightAnalysis

SpecAthlete == InitAthlete /\ [][NextAthlete]_vars

(* Direct calls of validate_number_input: a text is drawn together with    *)
(* what it means, written out from the number it stands for, and with the  *)
(* bounds of a call.                                                       *)

MaxInputInt == 201

\* a text and the number it stands for, or the error of a text that stands
\* for none
TextCase(text, meaning) == [text |-> text, meaning |-> meaning]

Signs == { <<>>, <<"+">>, <<"-">> }

SignedTenths(sign, t) == IF sign = <<"-">> THEN 0 - t ELSE t

\* decimal literals: an optional sign, the digits of n, and nothing, a
\* point, or a point and one digit
Literals ==
    { TextCase(sign \o NatToChars(n), Return(Num(SignedTenths(sign, 10 * n)))) :
        sign \in Signs, n \in 0..MaxInputInt }
    \cup
    { TextCase(sign \o NatToChars(n) \o <<".">>,
               Return(Num(SignedTenths(sign, 10 * n)))) :
        sign \in Signs, n \in 0..MaxInputInt }
    \cup
    { TextCase(sign \o NatToChars(n) \o <<".", DigitChars[d + 1]>>,
               Return(Num(SignedTenths(sign, 10 * n + d)))) :
        sign \in Signs, n \in 0..MaxInputInt, d \in {0, 5, 9} }
    \cup
    { TextCase(sign \o <<".", DigitChars[d + 1]>>,
               Return(Num(SignedTenths(sign, d)))) :
        sign \in Signs, d \in {0, 5} }

\* the infinities, which float() reads as numbers
InfinityTexts ==
    { TextCase(<<"i","n","f">>, Return(Inf)),
      TextCase(<<"+","I","N","F">>, Return(Inf)),
      TextCase(<<"I","n","f","i","n","i","t","y">>, Return(Inf)),
      TextCase(<<"-","i","n","f">>, Return(NegInf)) }

\* texts that stand for no number
NonNumbers ==
    { TextCase(t, Raise("NotANumber")) :
        t \in { <<>>, <<".">>, <<"+">>, <<"-">>, <<"a","b","c">>,
                <<"1",".","2",".","3">>, <<"-","-","1">>, <<"1"," ","2">>,
                <<"5","x">>, <<"n","a","n">>, <<"N","a","N">>,
                <<"-","n","a","n">>, <<"i","n">> } }

Padded(c, before, after) == TextCase(before \o c.text \o after, c.meaning)

TextCases ==
    { Padded(c, before, after) :
        c \in Literals \cup InfinityTexts \cup NonNumbers,
        before \in { <<>>, <<" ">> }, after \in { <<>>, <<"\t", " ">> } }

\* (min_val, max_val): the defaults and the three calls of register_athlete
RangeArgs ==
    { <<Num(0), Inf>>, <<Num(300), Num(2000)>>, <<Num(0), Num(40)>>,
      <<Num(0), Num(10 * MAX_PRIVATE_COACHING_HOURS)>> }

InputArgs(c, r) ==
    [value |-> c.text, meaning |-> c.meaning, min_val |-> r[1],
     max_val |-> r[2]]

ValidateNumberInput ==
    /\ pc = "input"
    /\ built' = validate_number_input(args.value, args.min_val, args.max_val)
    /\ pc' = IF built'.raised THEN "rejected" ELSE "returned"
    /\ UNCHANGED <<args, fees, analysis>>
    /\ UNCHANGED registryVars

InitInput ==
    /\ athletes = load_initial_data
    /\ athlete_display = refresh_athlete_display(athletes)
    /\ athlete_selector = athlete_names(athletes)
    /\ selected_athlete_var = update_athlete_selector(athletes)
    /\ report_display = <<>>
    /\ outcome = Outcome("init", "ok", <<>>)
    /\ args \in { InputArgs(c, r) : c \in TextCases, r \in RangeArgs }
    /\ pc = "input"
    /\ built = NotCalled
    /\ fees = NotCalled
    /\ analysis = NotCalled

NextInput == ValidateNumberInput

SpecInput == InitInput /\ [][NextInput]_vars

----------------------------------------------------------------------------
(* The rules of an athlete record, stated on their own *)

PlanNames == {"Beginner", "Intermediate", "Elite"}

\* n is s without its leading and trailing whitespace, and is not empty
IsTrimOf(n, s) ==
    \E i \in 1..Len(s), j \in 1..Len(s) :
        /\ i <= j
        /\ n = SubSeq(s, i, j)
        /\ s[i] \notin Whitespace /\ s[j] \notin Whitespace
        /\ \A k \in 1..(i - 1) : s[k] \in Whitespace
        /\ \A k \in (j + 1)..Len(s) : s[k] \in Whitespace

NameRule(s) == \E i \in 1..Len(s) : s[i] \notin Whitespace
PlanRule(p) == p \in PlanNames
WeightRule(w) == IsNum(w) /\ 0 < w[2] /\ w[2] <= 2000
CompetitionsRule(c, p) == c \in 0..4 /\ (p = "Beginner" => c = 0)
HoursRule(h) == h \in 0..5

ArgsValid(a) ==
    /\ NameRule(a.name)
    /\ PlanRule(a.training_plan)
    /\ WeightRule(a.current_weight)
    /\ CompetitionsRule(a.competitions, a.training_plan)
    /\ HoursRule(a.private_coaching_hours)

\* the kinds of error of the first rule, in the order name, plan, weight,
\* competitions, coaching hours, that the arguments violate
EarliestViolation(a) ==
    IF ~NameRule(a.name) THEN {"InvalidName"}
    ELSE IF ~PlanRule(a.training_plan) THEN {"UnknownPlan"}
    ELSE IF ~WeightRule(a.current_weight) THEN {"InvalidWeight"}
    ELSE IF ~CompetitionsRule(a.competitions, a.training_plan)
         THEN {"InvalidCompetitions", "CompetitionsNotAllowedForPlan",
               "TooManyCompetitions"}
    ELSE IF ~HoursRule(a.private_coaching_hours)
         THEN {"InvalidCoachingHours"}
    ELSE {}

\* the first category, in ascending order of the bounds, whose bound is at
\* least t tenths of a kilogram
CategoryOfTenths(t) ==
    IF t <= 660 THEN "Flyweight"
    ELSE IF t <= 730 THEN "Lightweight"
    ELSE IF t <= 810 THEN "Light-Middleweight"
    ELSE IF t <= 900 THEN "Middleweight"
    ELSE IF t <= 1000 THEN "Light-Heavyweight"
    ELSE "Heavyweight"

\* the monthly training fee of a plan, in pence
MonthlyTrainingFee(p) ==
    CASE p = "Beginner" -> 10000
      [] p = "Intermediate" -> 12000
      [] p = "Elite" -> 14000

SameLetter(c, d) ==
    \/ c = d
    \/ \E i \in 1..Len(UpperChars) : {c, d} = {UpperChars[i], LowerChars[i]}

\* s and t are equal up to the case of their letters
EqualIgnoringCase(s, t) ==
    /\ Len(s) = Len(t)
    /\ \A i \in 1..Len(s) : SameLetter(s[i], t[i])

----------------------------------------------------------------------------
(* Claims on the Athlete class, under SpecAthlete *)

\* C1: every record that construction returns satisfies all the field rules
\* (name non-empty and equal to the trimmed input, plan one of the three,
\* 0 < weight <= 200, competitions in 0..4 and 0 for a Beginner, coaching
\* hours in 0..5), and arguments violating a rule make construction fail.
C1_ConstructionEnforcesRules ==
    /\ pc = "constructed" =>
          /\ IsTrimOf(built.value.name, args.name)
          /\ PlanRule(built.value.training_plan)
          /\ WeightRule(built.value.current_weight)
          /\ CompetitionsRule(built.value.competitions,
                              built.value.training_plan)
          /\ HoursRule(built.value.private_coaching_hours)
    /\ pc \in {"constructed", "raised"} =>
          (pc = "constructed" <=> ArgsValid(args))

\* C3: the fee breakdown of a constructed record is weeklyFee * 4,
\* hours * 4 * 9.50, competitions * 22.00 and their exact sum, the call never
\* fails, and Intermediate with 2 competitions and 3 hours gives 120.00,
\* 114.00, 44.00 and 278.00.
C3_FeeBreakdown ==
    (pc = "constructed" /\ fees.done) =>
        /\ ~fees.result.raised
        /\ LET f == fees.result.value
               r == built.value
           IN  /\ f.training_cost = MonthlyTrainingFee(r.training_plan)
               /\ f.coaching_cost = r.private_coaching_hours * 3800
               /\ f.competition_cost = r.competitions * 2200
               /\ f.total_cost =
                     f.training_cost + f.coaching_cost + f.competition_cost
               /\ ( /\ r.training_plan = "Intermediate"
                    /\ r.competitions = 2
                    /\ r.private_coaching_hours = 3 ) =>
                     /\ f.training_cost = 12000
                     /\ f.coaching_cost = 11400
                     /\ f.competition_cost = 4400
                     /\ f.total_cost = 27800

C3_Witness ==
    /\ fees.done
    /\ args = CallArgs(<<"J">>, "Intermediate", Num(750), 2, 3)
    /\ fees.result.value.total_cost = 27800

\* C4: for every weight with 0 < w <= 200 the category of the constructed
\* record is one of the six categories, namely the first in ascending bound
\* order whose bound is >= w; 66.0 is Flyweight, 66.1 Lightweight, 100.0
\* Light-Heavyweight and 100.1 Heavyweight.
C4_WeightCategory ==
    (pc = "constructed" /\ WeightRule(args.current_weight)) =>
        LET t == args.current_weight[2]
            c == built.value.weight_category
        IN  /\ c \in {WEIGHT_CATEGORIES[i][1] : i \in 1..Len(WEIGHT_CATEGORIES)}
            /\ c = CategoryOfTenths(t)
            /\ t = 660 => c = "Flyweight"
            /\ t = 661 => c = "Lightweight"
            /\ t = 1000 => c = "Light-Heavyweight"
            /\ t = 1001 => c = "Heavyweight"

C4_Witness ==
    /\ pc = "constructed"
    /\ args.current_weight = Num(660)
    /\ built.value.weight_category = "Flyweight"

\* C5: when the arguments violate more than one rule, the error raised is
\* that of the earliest violated rule in the order name, plan, weight,
\* competitions, coaching hours.
C5_EarliestCheckReported ==
    (pc \in {"constructed", "raised"} /\ EarliestViolation(args) # {}) =>
        /\ pc = "raised"
        /\ built.error \in EarliestViolation(args)

\* C6: once the name, plan and weight checks have passed, the competitions
\* check raises InvalidCompetitions for a negative number, otherwise
\* CompetitionsNotAllowedForPlan for a Beginner with more than 0 (also above
\* 4), otherwise TooManyCompetitions above 4, and raises none of them for
\* the remaining values.
C6_CompetitionsCheck ==
    ( /\ pc \in {"constructed", "raised"}
      /\ ~(pc = "raised" /\ built.error \in
                {"InvalidName", "UnknownPlan", "InvalidWeight"}) ) =>
        LET c == args.competitions
            p == args.training_plan
            expected ==
                IF c < 0 THEN "InvalidCompetitions"
                ELSE IF p = "Beginner" /\ c > 0
                     THEN "CompetitionsNotAllowedForPlan"
                ELSE IF c > 4 THEN "TooManyCompetitions"
                ELSE "accepted"
        IN  IF expected = "accepted"
            THEN \/ pc = "constructed"
                 \/ built.error = "InvalidCoachingHours"
            ELSE pc = "raised" /\ built.error = expected

C6_Witness ==
    /\ pc = "raised"
    /\ built.error = "CompetitionsNotAllowedForPlan"
    /\ args.competitions > 4

\* C7: every Beginner record has no competitions and a competition cost of
\* 0, and a record with no competitions and no coaching hours costs exactly
\* its training fee, 100.00 for a Beginner.
C7_BeginnerPaysNoCompetitions ==
    /\ \A i \in 1..Len(athletes) :
          athletes[i].training_plan = "Beginner" =>
              athletes[i].competitions = 0
    /\ (pc = "constructed" /\ built.value.training_plan = "Beginner") =>
          built.value.competitions = 0
    /\ (pc = "constructed" /\ fees.done) =>
          LET f == fees.result.value
              r == built.value
          IN  /\ r.training_plan = "Beginner" => f.competition_cost = 0
              /\ (r.competitions = 0 /\ r.private_coaching_hours = 0) =>
                    /\ f.total_cost = f.training_cost
                    /\ r.training_plan = "Beginner" => f.total_cost = 10000

C7_Witness ==
    /\ fees.done
    /\ built.value.training_plan = "Beginner"
    /\ built.value.private_coaching_hours = 0
    /\ fees.result.value.competition_cost = 0
    /\ fees.result.value.total_cost = 10000

----------------------------------------------------------------------------
(* Claims on the registry, under Spec *)

\* w, c and h are the numbers of valid weight, competitions and coaching
\* hours entries for the plan p
NumbersValid(p, w, c, h) ==
    /\ ~w.raised /\ IsNum(w.value)
    /\ 300 <= w.value[2] /\ w.value[2] <= 2000
    /\ ~c.raised /\ IsNum(c.value) /\ c.value[2] % 10 = 0
    /\ CompetitionsRule(c.value[2] \div 10, p)
    /\ ~h.raised /\ IsNum(h.value) /\ h.value[2] % 10 = 0
    /\ HoursRule(h.value[2] \div 10)

\* the entries of a form other than the name are valid for a record
FormFieldsValid(f) ==
    /\ f.plan \in PlanNames
    /\ NumbersValid(f.plan, ParseFloat(f.weight), ParseFloat(f.competitions),
                    ParseFloat(f.coaching))

\* C2: no two records of the athlete collection have names that are equal
\* when compared case-insensitively.
C2_NamesUnique ==
    \A i, j \in 1..Len(athletes) :
        i # j => ~EqualIgnoringCase(athletes[i].name, athletes[j].name)

C2_Witness ==
    /\ \E i \in 1..Len(athletes) : athletes[i].name = <<"A", "B">>
    /\ \E i \in 1..Len(athletes) :
          athletes[i].name =
              <<"l","i","s","a"," ","a","n","d","e","r","s","o","n">>
    /\ Len(athletes) < 6

\* C8: registering a name that equals the name of a registered record, or
\* differs from it only by letter case, fails with DuplicateName and adds no
\* record.
C8_DuplicateRejected ==
    [][ ( /\ outcome'.op = "register"
          /\ \E i \in 1..Len(athletes) :
                EqualIgnoringCase(athletes[i].name, outcome'.name) ) =>
            /\ outcome'.result = "DuplicateName"
            /\ athletes' = athletes ]_vars

C8_Witness ==
    /\ outcome.op = "register"
    /\ outcome.result = "DuplicateName"
    /\ outcome.name = <<"A", "B">>
    /\ \E i \in 1..Len(athletes) : athletes[i].name = <<"a", "b">>

\* C9: right after the record named n has been removed, registering n or a
\* case variant of n with otherwise valid entries succeeds and adds the
\* record.
C9_RegisterAfterRemove ==
    [][ \A f \in RegistrationForms :
          ( /\ outcome.op = "remove" /\ outcome.result = "removed"
            /\ outcome'.op = "register"
            /\ EqualIgnoringCase(Strip(f.name), outcome.name)
            /\ FormFieldsValid(f)
            /\ RegisterAthlete(f) ) =>
              /\ outcome'.result = "ok"
              /\ Len(athletes') = Len(athletes) + 1
              /\ athletes'[Len(athletes')].name = Strip(f.name) ]_vars

C9_Witness ==
    /\ outcome.op = "register"
    /\ outcome.result = "ok"
    /\ athletes # <<>>
    /\ athletes[Len(athletes)].name =
          <<"l","i","s","a"," ","a","n","d","e","r","s","o","n">>

\* C10: a rejected operation leaves the athlete collection, its records and
\* what is displayed of them exactly as they were.
C10_RejectionChangesNothing ==
    [][ outcome'.result \notin {"ok", "removed"} =>
          UNCHANGED <<athletes, athlete_display, selected_athlete_var>> ]_vars

C10_Witness ==
    /\ outcome.op = "register"
    /\ outcome.result = "CompetitionsNotAllowedForPlan"
    /\ Len(athletes) = 6

\* the sequence s without its k-th element
WithoutIndex(s, k) ==
    [i \in 1..(Len(s) - 1) |-> IF i < k THEN s[i] ELSE s[i + 1]]

\* C11: a removal by a name that is in the registry removes exactly one
\* record, the one with exactly that name, and leaves every other record in
\* the collection unchanged and in the same relative order.
C11_RemoveExactlyOne ==
    [][ ( /\ outcome'.op = "remove" /\ outcome'.result = "removed"
          /\ \E i \in 1..Len(athletes) : athletes[i].name = outcome'.name ) =>
            \E k \in 1..Len(athletes) :
                /\ athletes[k].name = outcome'.name
                /\ \A j \in 1..Len(athletes) :
                      j # k => athletes[j].name # outcome'.name
                /\ athletes' = WithoutIndex(athletes, k) ]_vars

C11_Witness ==
    /\ outcome.op = "remove" /\ outcome.result = "removed"
    /\ outcome.name = sample_data[4][1]
    /\ Len(athletes) = 5
    /\ athletes[3].name = sample_data[3][1]
    /\ athletes[4].name = sample_data[5][1]

\* the position of the record a in the sequence s, or 0
PositionIn(s, a) ==
    IF \E i \in 1..Len(s) : s[i] = a
    THEN CHOOSE i \in 1..Len(s) : s[i] = a
    ELSE 0

\* C13: a successful registration appends the new record at the end, so
\* the collection, and the listing produced from it, hold the surviving
\* records in the order in which they were registered: every step keeps the
\* records that survive it in their order and puts a new record after them,
\* and the rows of the listing are in the order of the collection.
C13_InsertionOrder ==
    [][ /\ (outcome'.op = "register" /\ outcome'.result = "ok") =>
              /\ Len(athletes') = Len(athletes) + 1
              /\ SubSeq(athletes', 1, Len(athletes)) = athletes
              /\ athletes'[Len(athletes')].name = outcome'.name
        /\ \A i, j \in 1..Len(athletes') :
              i < j =>
                /\ PositionIn(athletes, athletes'[j]) # 0 =>
                      PositionIn(athletes, athletes'[i]) # 0
                /\ PositionIn(athletes, athletes'[j]) # 0 =>
                      PositionIn(athletes, athletes'[i])
                          < PositionIn(athletes, athletes'[j])
        /\ Len(athlete_display') = Len(athletes')
        /\ \A i \in 1..Len(athletes') :
              athlete_display'[i].name = athletes'[i].name ]_vars

C13_Witness ==
    /\ outcome.op = "register" /\ outcome.result = "ok"
    /\ Len(athletes) = 4
    /\ athletes[1].name = sample_data[2][1]
    /\ athletes[2].name = sample_data[5][1]
    /\ athletes[3].name = <<"a", "b">>
    /\ athletes[4].name =
          <<"l","i","s","a"," ","a","n","d","e","r","s","o","n">>
    /\ athlete_display[4].name = athletes[4].name

----------------------------------------------------------------------------
(* Weight analysis, under SpecAthlete *)

\* the bound of a category other than Heavyweight, in tenths of a kilogram
BoundOfCategory(c) ==
    CASE c = "Flyweight" -> 660
      [] c = "Lightweight" -> 730
      [] c = "Light-Middleweight" -> 810
      [] c = "Middleweight" -> 900
      [] c = "Light-Heavyweight" -> 1000

\* C14: the weight analysis of a valid record is Unbounded for a
\* Heavyweight, and otherwise goes by margin = bound - weight: well within
\* the limit when margin > 5, close to it when 0 < margin <= 5, and the
\* at-or-over branch when margin = 0; the margin is never negative, so that
\* last branch is taken only when the weight equals the bound.
C14_WeightAnalysis ==
    (pc = "constructed" /\ analysis.done /\ WeightRule(args.current_weight)) =>
        LET t == built.value.current_weight[2]
            c == built.value.weight_category
            wording == analysis.result.wording
        IN  IF c = "Heavyweight"
            THEN wording = "Heavyweight category (no upper limit)"
            ELSE /\ BoundOfCategory(c) - t >= 0
                 /\ BoundOfCategory(c) - t > 50 => wording = "Well within"
                 /\ ( /\ 0 < BoundOfCategory(c) - t
                      /\ BoundOfCategory(c) - t <= 50 ) => wording = "Close to"
                 /\ BoundOfCategory(c) - t = 0 => wording = "Over"
                 /\ wording = "Over" => t = BoundOfCategory(c)

C14_Witness ==
    /\ pc = "constructed" /\ analysis.done
    /\ args.current_weight = Num(730)
    /\ built.value.weight_category = "Lightweight"
    /\ analysis.result.wording = "Over"

----------------------------------------------------------------------------
(* Claims on the reports, under SpecReports *)

\* the amount in pence that a text of format_currency shows
PenceOfText(s) ==
    100 * DigitsVal(SubSeq(s, 2, Len(s) - 3))
        + DigitsVal(SubSeq(s, Len(s) - 1, Len(s)))

\* the total monthly cost of a record, in pence
RecordTotal(a) ==
    MonthlyTrainingFee(a.training_plan) + a.private_coaching_hours * 3800
        + a.competitions * 2200

RECURSIVE SumOfTotals(_)
SumOfTotals(s) ==
    IF s = <<>> THEN 0 ELSE RecordTotal(Head(s)) + SumOfTotals(Tail(s))

NumberOnPlan(s, plan) ==
    Cardinality({i \in 1..Len(s) : s[i].training_plan = plan})

\* C15: on a non-empty registry the summary reports the number of records,
\* the sum of the records' total costs, that sum divided by the number of
\* records (shown to the penny), and plan counts that list exactly the plans
\* with at least one athlete, each once and with its number of athletes.
C15_FacilitySummary ==
    (outcome.op = "summary" /\ athletes # <<>>) =>
        /\ outcome.result = "ok"
        /\ report_display # <<>>
        /\ LET r == report_display[1]
               d == r.training_plan_distribution
           IN  /\ r.total_registered_athletes = Len(athletes)
               /\ PenceOfText(r.total_monthly_revenue) = SumOfTotals(athletes)
               /\ 2 * PenceOfText(r.average_fee_per_athlete) * Len(athletes)
                     <= 2 * SumOfTotals(athletes) + Len(athletes)
               /\ 2 * PenceOfText(r.average_fee_per_athlete) * Len(athletes)
                     >= 2 * SumOfTotals(athletes) - Len(athletes)
               /\ {d[k][1] : k \in 1..Len(d)} =
                     {p \in PlanNames : NumberOnPlan(athletes, p) > 0}
               /\ \A k, l \in 1..Len(d) : d[k][1] = d[l][1] => k = l
               /\ \A k \in 1..Len(d) :
                     d[k][2] = NumberOnPlan(athletes, d[k][1])

C15_Witness ==
    /\ outcome.op = "summary" /\ outcome.result = "ok"
    /\ Len(athletes) = 6
    /\ report_display[1].total_registered_athletes = 6
    /\ PenceOfText(report_display[1].total_monthly_revenue) = 139600
    /\ PenceOfText(report_display[1].average_fee_per_athlete) = 23267
    /\ report_display[1].training_plan_distribution =
          << <<"Elite", 2>>, <<"Intermediate", 2>>, <<"Beginner", 2>> >>

\* C16: asking for the summary while the registry is empty ends with the
\* empty-registry message, writes no summary and never divides by a count
\* of 0, also after removals have emptied the registry.
C16_EmptySummary ==
    [][ (outcome'.op = "summary" /\ athletes = <<>>) =>
            /\ outcome'.result = "NoAthletes"
            /\ outcome'.result # "ZeroDivisionError"
            /\ report_display' = report_display ]_vars

C16_Witness ==
    /\ outcome.op = "summary" /\ outcome.result = "NoAthletes"
    /\ athletes = <<>>
    /\ athlete_display = <<>>

\* C17: an individual report of the athlete that the report before it was
\* about shows the same text again, a refreshed listing has the rows the
\* listing had, and neither operation changes the registry or a record.
C17_RepeatedReads ==
    [][ /\ ( /\ outcome.op = "individual" /\ outcome.result = "ok"
             /\ outcome'.op = "individual"
             /\ outcome'.name = outcome.name ) =>
               /\ outcome'.result = "ok"
               /\ report_display' = report_display
        /\ outcome'.op = "refresh" => athlete_display' = athlete_display
        /\ outcome'.op \in {"individual", "refresh"} =>
               athletes' = athletes ]_vars

C17_Witness ==
    /\ outcome.op = "individual" /\ outcome.result = "ok"
    /\ outcome.name = sample_data[2][1]
    /\ Len(report_display) = 1
    /\ report_display[1].heading = Upper(sample_data[2][1])
    /\ Len(athletes) = 6

\* the categories whose bound is the first, in ascending order, that is at
\* least the weight w
LookupCategory(w) ==
    { WEIGHT_CATEGORIES[i][1] : i \in
        { i \in 1..Len(WEIGHT_CATEGORIES) :
            /\ FLe(w, WEIGHT_CATEGORIES[i][2])
            /\ \A j \in 1..(i - 1) : ~FLe(w, WEIGHT_CATEGORIES[j][2]) } }

\* C18: no operation changes a field of a record that stays in the
\* registry, and the weight category of every record is the one that the
\* lookup in the ordered bounds gives for its weight.
C18_RecordsFrozen ==
    [][ /\ \A i \in 1..Len(athletes), j \in 1..Len(athletes') :
              athletes'[j].name = athletes[i].name =>
                  athletes'[j] = athletes[i]
        /\ \A j \in 1..Len(athletes') :
              athletes'[j].weight_category
                  \in LookupCategory(athletes'[j].current_weight) ]_vars

----------------------------------------------------------------------------
(* Claims on validate_number_input, under SpecInput *)

\* x <= y for numbers and infinities
AtMost(x, y) ==
    \/ x = NegInf
    \/ y = Inf
    \/ IsNum(x) /\ IsNum(y) /\ x[2] <= y[2]

\* C19: validate_number_input returns the number exactly when the text is
\* a number v with min_val <= v <= max_val, and raises a ValueError in every
\* other case: when the text is not a number, when v < min_val and when
\* v > max_val.
C19_NumberInput ==
    pc \in {"returned", "rejected"} =>
        IF /\ ~args.meaning.raised
           /\ AtMost(args.min_val, args.meaning.value)
           /\ AtMost(args.meaning.value, args.max_val)
        THEN pc = "returned" /\ built.value = args.meaning.value
        ELSE /\ pc = "rejected"
             /\ args.meaning.raised => built.error = "NotANumber"
             /\ ( /\ ~args.meaning.raised
                  /\ ~AtMost(args.min_val, args.meaning.value) ) =>
                    built.error = "BelowMinimum"
             /\ ( /\ ~args.meaning.raised
                  /\ AtMost(args.min_val, args.meaning.value) ) =>
                    built.error = "AboveMaximum"

----------------------------------------------------------------------------
(* The registry after initialization, under Spec *)

\* C20: after initialization the registry holds exactly the six sample
\* athletes in their listed order: none is skipped, each is a valid record
\* with the fields of its sample entry, and their names are pairwise
\* different also when compared case-insensitively.
C20_InitialRegistry ==
    outcome.op = "init" =>
        /\ athletes # <<>>
        /\ Len(athletes) = 6
        /\ Len(athletes) = Len(sample_data)
        /\ \A i \in 1..Len(athletes) :
              /\ athletes[i].name = sample_data[i][1]
              /\ athletes[i].training_plan = sample_data[i][2]
              /\ athletes[i].current_weight = sample_data[i][3]
              /\ athletes[i].competitions = sample_data[i][4]
              /\ athletes[i].private_coaching_hours = sample_data[i][5]
              /\ NameRule(athletes[i].name)
              /\ PlanRule(athletes[i].training_plan)
              /\ WeightRule(athletes[i].current_weight)
              /\ CompetitionsRule(athletes[i].competitions,
                                  athletes[i].training_plan)
              /\ HoursRule(athletes[i].private_coaching_hours)
              /\ athletes[i].weight_category =
                    CategoryOfTenths(athletes[i].current_weight[2])
        /\ \A i, j \in 1..Len(athletes) :
              i # j => ~EqualIgnoringCase(athletes[i].name, athletes[j].name)

C20_Witness ==
    /\ outcome.op = "init"
    /\ Len(athletes) = 6
    /\ athletes[1].name = sample_data[1][1]
    /\ athletes[4].private_coaching_hours = 5
    /\ athletes[6].name = sample_data[6][1]
    /\ athlete_display[6].name = sample_data[6][1]

----------------------------------------------------------------------------
(* The selected athlete, under SpecReports *)

\* the athlete selected for the individual report is the empty value when
\* the registry athletes_ is empty, and the name of one of its records
\* otherwise
SelectionIn(athletes_, selected) ==
    /\ selected = <<>> <=> athletes_ = <<>>
    /\ athletes_ # <<>> =>
          \E i \in 1..Len(athletes_) : athletes_[i].name = selected

\* C21: in every state reached by register, remove and selector choices the
\* athlete selected for the individual report is the empty value exactly
\* when the registry is empty and otherwise the name of a registered
\* athlete; every successful register and every removal resets it to the
\* first athlete; and the individual report never ends with "Selected
\* athlete not found".
C21_SelectionRegistered ==
    [][ /\ SelectionIn(athletes, selected_athlete_var)
        /\ SelectionIn(athletes', selected_athlete_var')
        /\ ( \/ outcome'.op = "register" /\ outcome'.result = "ok"
             \/ outcome'.op = "remove" /\ outcome'.result = "removed" ) =>
               IF athletes' = <<>> THEN selected_athlete_var' = <<>>
               ELSE selected_athlete_var' = athletes'[1].name
        /\ outcome'.result # "NotFound" ]_vars

\* a removal while another athlete than the first was selected: the
\* selection is back at the first of the remaining athletes
C21_Witness ==
    /\ outcome.op = "remove" /\ outcome.result = "removed"
    /\ outcome.name = sample_data[1][1]
    /\ Len(athletes) = 5
    /\ selected_athlete_var = sample_data[2][1]
    /\ Len(report_display) = 1
    /\ "heading" \in DOMAIN report_display[1]
    /\ report_display[1].heading = Upper(sample_data[4][1])

----------------------------------------------------------------------------
(* Claims on the entries of the registration form, under Spec *)

\* the weight entry of the form f is a number w with 0 < w < 30
WeightBelowMinimum(f) ==
    /\ ~ParseFloat(f.weight).raised
    /\ IsNum(ParseFloat(f.weight).value)
    /\ 0 < ParseFloat(f.weight).value[2]
    /\ ParseFloat(f.weight).value[2] < 300

BelowMinimumForms == {f \in RegistrationForms : WeightBelowMinimum(f)}

\* C22: every record added through register_athlete has a weight w with
\* 30 <= w <= 200, and a weight entry w with 0 < w < 30, which
\* Athlete construction accepts, is rejected by register_athlete with the
\* registry left unchanged.
C22_RegisterStricter ==
    [][ /\ (outcome'.op = "register" /\ outcome'.result = "ok") =>
              /\ IsNum(athletes'[Len(athletes')].current_weight)
              /\ 300 <= athletes'[Len(athletes')].current_weight[2]
              /\ athletes'[Len(athletes')].current_weight[2] <= 2000
        /\ \A f \in BelowMinimumForms :
              (outcome'.op = "register" /\ RegisterAthlete(f)) =>
                  /\ ~_validate_weight(ParseFloat(f.weight).value).raised
                  /\ outcome'.result \in {"BelowMinimum", "DuplicateName"}
                  /\ IsDuplicateName(athletes, Strip(f.name))
                         <=> outcome'.result = "DuplicateName"
                  /\ athletes' = athletes ]_vars

\* the whole number toward zero of t tenths
TowardZero(t) == IF t >= 0 THEN t \div 10 ELSE 0 - ((0 - t) \div 10)

\* the entry is a number
IsNumberEntry(text) ==
    ~ParseFloat(text).raised /\ IsNum(ParseFloat(text).value)

\* the forms whose competitions and coaching-hours entries are numbers, and
\* the tenths of these numbers
NumberForms ==
    {f \in RegistrationForms :
        IsNumberEntry(f.competitions) /\ IsNumberEntry(f.coaching)}

CompetitionsTenths ==
    [f \in NumberForms |-> ParseFloat(f.competitions).value[2]]

CoachingTenths == [f \in NumberForms |-> ParseFloat(f.coaching).value[2]]

\* the forms of NumberForms with a valid weight entry whose competitions and
\* coaching-hours entries are within 0..4 and 0..5 as real numbers and whose
\* competitions entry, cut to a whole number, is allowed for the plan
InRangeForms ==
    {f \in NumberForms :
        /\ IsNumberEntry(f.weight)
        /\ 300 <= ParseFloat(f.weight).value[2]
        /\ ParseFloat(f.weight).value[2] <= 2000
        /\ 0 <= CompetitionsTenths[f] /\ CompetitionsTenths[f] <= 40
        /\ 0 <= CoachingTenths[f] /\ CoachingTenths[f] <= 50
        /\ CompetitionsRule(TowardZero(CompetitionsTenths[f]), f.plan)}

\* the forms of NumberForms with a competitions or coaching-hours entry
\* outside 0..4 or 0..5 as a real number
OutOfRangeForms ==
    {f \in NumberForms :
        \/ CompetitionsTenths[f] < 0 \/ CompetitionsTenths[f] > 40
        \/ CoachingTenths[f] < 0 \/ CoachingTenths[f] > 50}

\* the forms of NumberForms with a competitions or coaching-hours entry that
\* is no whole number
FractionalForms ==
    {f \in NumberForms :
        CompetitionsTenths[f] % 10 # 0 \/ CoachingTenths[f] % 10 # 0}

\* name_input.get().strip() of the forms
StrippedName == [f \in RegistrationForms |-> Strip(f.name)]

\* C23: register_athlete checks the competitions and coaching-hours entries
\* against their ranges as real numbers and then cuts them toward zero to
\* whole numbers: an in-range entry that is no whole number is not rejected
\* but registered with the cut value (a Beginner's 0.5 competitions as 0,
\* 3.5 as 3), while an entry outside the range (4.5 competitions, 5.5 or
\* -0.5 hours) is rejected although its cut value would be in range.
C23_EntriesTruncated ==
    [][ \A f \in FractionalForms :
          ( /\ outcome'.op = "register"
            /\ outcome'.name = StrippedName[f]
            /\ RegisterAthlete(f) ) =>
              IF IsDuplicateName(athletes, StrippedName[f])
              THEN outcome'.result = "DuplicateName" /\ athletes' = athletes
              ELSE /\ f \in InRangeForms =>
                        /\ outcome'.result = "ok"
                        /\ Len(athletes') = Len(athletes) + 1
                        /\ athletes'[Len(athletes')].competitions
                               = TowardZero(CompetitionsTenths[f])
                        /\ athletes'[Len(athletes')].private_coaching_hours
                               = TowardZero(CoachingTenths[f])
                   /\ f \in OutOfRangeForms =>
                        /\ outcome'.result \in {"BelowMinimum", "AboveMaximum"}
                        /\ athletes' = athletes ]_vars

\* the entry of 3.5 competitions is registered as 3
C23_Witness ==
    /\ outcome.op = "register" /\ outcome.result = "ok"
    /\ athletes[Len(athletes)].name = <<"A", "B">>
    /\ athletes[Len(athletes)].training_plan = "Elite"
    /\ athletes[Len(athletes)].current_weight = Num(700)
    /\ athletes[Len(athletes)].competitions = 3
    /\ athletes[Len(athletes)].private_coaching_hours = 0

====
